---- MODULE Spec2Model ----
(***************************************************************************)
(* InlineEditsLongDistanceHint                                             *)
(* (src/vs/editor/contrib/inlineCompletions/browser/view/inlineEdits/      *)
(*  inlineEditsViews/inlineEditsLongDistanceHint.ts)                       *)
(*                                                                         *)
(* The view is a graph of observables: inputs (the view state, the hint's  *)
(* pixel position, the host editor's layout and scroll offset, the preview *)
(* editor's line height), deriveds, and autoruns that write to the DOM and *)
(* to the embedded preview editor.  Recomputation is synchronous: an       *)
(* action below is one input change together with every derived and        *)
(* autorun that reruns because of it.                                      *)
(***************************************************************************)
EXTENDS Integers, Sequences, FiniteSets, TLC

VARIABLES
    viewState,           \* _viewState: Undefined or Some(ILongDistanceViewState)
    lineCount,           \* _previewTextModel.getLineCount()
    hintTopLeft,         \* _hintTopLeft: Null or Some(Point)
    contentLeft,         \* _editorObs.layoutInfo.contentLeft
    scrollLeft,          \* _editorObs.scrollLeft
    lineHeight,          \* _previewEditorObs.observeLineHeightForLine(..)
    previewContentWidth, \* previewEditor.getContentWidth()
    display,             \* _view.element.style.display
    hiddenAreas,         \* last argument of previewEditor.setHiddenAreas
    widgetStyle,         \* _widgetContent.element.style.{top,left,width}
    previewLayout,       \* last argument of previewEditor.layout
    previewScrollLeft,   \* last argument of previewEditor.setScrollLeft
    previewDecorations,  \* decorations bound by setDecorations(_decorations)
    gutterLineRange,     \* last evaluation of the gutter indicator's line range
    live,                \* the objects created by the constructor and not yet disposed
    fired,               \* the events delivered through onDidClick, in order
    domEvents,           \* the mouse events dispatched on the widget content, in order
    fitsIn,              \* the arguments of fitsInsideViewport
    fitsOut              \* its last result: Undefined or Some(BOOLEAN)

vars == <<viewState, lineCount, hintTopLeft, contentLeft, scrollLeft, lineHeight,
          previewContentWidth, display, hiddenAreas, widgetStyle, previewLayout,
          previewScrollLeft, previewDecorations, gutterLineRange, live, fired,
          domEvents, fitsIn, fitsOut>>

(***************************************************************************)
(* Optional values.  undefined and null are the empty tuple, a present     *)
(* value v is the one-element tuple <<v>>.                                 *)
(***************************************************************************)
Undefined == <<>>
Null == <<>>
Some(v) == <<v>>
Val(o) == o[1]
IsSome(o) == o # <<>>

Max(a, b) == IF a >= b THEN a ELSE b

(***************************************************************************)
(* Bounds of the model.                                                    *)
(***************************************************************************)
MaxLineCount == 3   \* the preview text model has 1..MaxLineCount lines
MaxNewLines == 2    \* newTextLineCount is in 0..MaxNewLines
DecoMaxLine == 2    \* the mappings of a diff start on lines 1..DecoMaxLine
MaxEvents == 3      \* at most MaxEvents mouse events are dispatched
MaxFitsLines == 2   \* the edit has at most MaxFitsLines new lines
MaxEditorWidth == 60 \* the host editor is at most MaxEditorWidth pixels wide

(***************************************************************************)
(* Program constants.                                                      *)
(***************************************************************************)
BORDER_WIDTH == 1
ORIGINAL_END_PADDING == 20
MODIFIED_END_PADDING == 12
\* Number.MAX_SAFE_INTEGER (2^53 - 1) as a column; the model checker's integers
\* are 32 bits wide, and no column of the model comes near this one.
MAX_SAFE_INTEGER == 1073741823

(***************************************************************************)
(* Ranges.  LineRange is [startLineNumber, endLineNumberExclusive);        *)
(* Range is (startLineNumber, startColumn)-(endLineNumber, endColumn).     *)
(***************************************************************************)
LineRange(s, e) == [startLineNumber |-> s, endLineNumberExclusive |-> e]
LineRangeOfLength(s, len) == LineRange(s, s + len)
LineRangeIsEmpty(r) == r.startLineNumber = r.endLineNumberExclusive
LineRangeContains(r, l) == r.startLineNumber <= l /\ l < r.endLineNumberExclusive
Range(sl, sc, el, ec) ==
    [startLineNumber |-> sl, startColumn |-> sc, endLineNumber |-> el, endColumn |-> ec]
RangeIsEmpty(r) ==
    r.startLineNumber = r.endLineNumber /\ r.startColumn = r.endColumn
\* LineRange.toInclusiveRange: null when empty, else the whole lines
ToInclusiveRange(r) ==
    IF LineRangeIsEmpty(r) THEN Null
    ELSE Some(Range(r.startLineNumber, 1, r.endLineNumberExclusive - 1, MAX_SAFE_INTEGER))

(***************************************************************************)
(* Rect (base/common 2d/rect): left, top, right, bottom.                   *)
(***************************************************************************)
Rect(l, t, r, b) == [left |-> l, top |-> t, right |-> r, bottom |-> b]
RectFromLeftTopWidthHeight(l, t, w, h) == Rect(l, t, l + w, t + h)
RectWidth(r) == r.right - r.left
RectHeight(r) == r.bottom - r.top
RectWithMargin4(r, mt, mr, mb, ml) ==
    Rect(r.left - ml, r.top - mt, r.right + mr, r.bottom + mb)
RectWithMargin(r, m) == RectWithMargin4(r, m, m, m, m)
RectTranslateX(r, dx) == Rect(r.left + dx, r.top, r.right + dx, r.bottom)

(***************************************************************************)
(* The deriveds and pure functions of the view.                            *)
(***************************************************************************)

\* _display
Display(vs) == IF IsSome(vs) THEN "block" ELSE "none"

\* HiddenAreasFor with <= for < in the test for lines after the window
HiddenAreasFor_OffByOne(vs, lc) ==
    LET start == vs.edit.originalLineRange.startLineNumber
        before == IF start > 1
                  THEN <<Range(1, 1, start - 1, 1)>>
                  ELSE <<>>
        after == IF start + vs.newTextLineCount <= lc + 1
                 THEN <<Range(start + vs.newTextLineCount, 1, lc + 1, 1)>>
                 ELSE <<>>
    IN before \o after

\* the hidden areas computed by _updatePreviewEditor for a present view state
HiddenAreasFor(vs, lc) ==
    LET start == vs.edit.originalLineRange.startLineNumber
        before == IF start > 1
                  THEN <<Range(1, 1, start - 1, 1)>>
                  ELSE <<>>
        after == IF start + vs.newTextLineCount < lc + 1
                 THEN <<Range(start + vs.newTextLineCount, 1, lc + 1, 1)>>
                 ELSE <<>>
    IN before \o after

\* UpdatePreviewEditor without the early return: an absent view state hides nothing
UpdatePreviewEditor_NoEarlyReturn(vs, lc, current) ==
    IF ~IsSome(vs) THEN <<>> ELSE HiddenAreasFor(Val(vs), lc)

\* _updatePreviewEditor: the hidden areas after a recomputation; an absent view
\* state returns before setHiddenAreas is called
UpdatePreviewEditor(vs, lc, current) ==
    IF ~IsSome(vs) THEN current ELSE HiddenAreasFor(Val(vs), lc)

\* _hintTextPosition
HintTextPosition(vs) ==
    IF IsSome(vs)
    THEN Some([lineNumber |-> Val(vs).hint.lineNumber, column |-> MAX_SAFE_INTEGER])
    ELSE Null

\* getHorizontalContentRangeInPreviewEditorToShow: the first return wins
HorizontalContentRangeInPreviewEditorToShow(editorContentWidth, diff) ==
    [start |-> 55, endExclusive |-> 400]

OffsetRangeLength(r) == r.endExclusive - r.start

\* _previewEditorLayoutInfo
PreviewEditorLayoutInfo(vs, sl, cl, lh, cw, htl) ==
    IF ~IsSome(vs) THEN Null
    ELSE
        LET h == HorizontalContentRangeInPreviewEditorToShow(cw, Val(vs).diff)
            previewEditorWidth == OffsetRangeLength(h)
        IN  IF ~IsSome(htl) THEN Null
            ELSE
                LET margin == 10
                    codeEditorRect ==
                        RectTranslateX(
                            RectWithMargin(
                                RectFromLeftTopWidthHeight(
                                    Val(htl).x + cl + margin, Val(htl).y,
                                    previewEditorWidth, lh),
                                5),
                            5 + 3 + 2)
                    codeEditorRectWithPadding == RectWithMargin(codeEditorRect, 3)
                    widgetRect == RectWithMargin4(codeEditorRectWithPadding, 2, 2, 20, 2)
                IN  Some([codeEditorRect |-> codeEditorRect,
                          codeScrollLeft |-> sl,
                          contentLeft |-> cl,
                          widgetRect |-> widgetRect,
                          codeEditorRectWithPadding |-> codeEditorRectWithPadding,
                          desiredPreviewEditorScrollLeft |-> h.start,
                          previewEditorWidth |-> previewEditorWidth])

\* the first autorun: previewEditor.layout and the widget's top, left and width
LayoutAutorun(li, current) ==
    IF ~IsSome(li) THEN current
    ELSE [layout |-> Some([height |-> RectHeight(Val(li).codeEditorRect),
                           width |-> RectWidth(Val(li).codeEditorRect)]),
          style |-> Some([top |-> Val(li).widgetRect.top,
                          left |-> Val(li).widgetRect.left,
                          width |-> RectWidth(Val(li).widgetRect)])]

\* ScrollAutorun passing the host editor's scroll offset
ScrollAutorun_HostOffset(li, current) ==
    IF ~IsSome(li) THEN current
    ELSE Some(Val(li).codeScrollLeft)

\* the second autorun: previewEditor.setScrollLeft
ScrollAutorun(li, current) ==
    IF ~IsSome(li) THEN current
    ELSE Some(Val(li).desiredPreviewEditorScrollLeft)

\* the decoration options registered by _decorations
diffWholeLineAddDecoration ==
    [className |-> "inlineCompletions-char-insert", description |-> "char-insert",
     isWholeLine |-> TRUE, shouldFillLineOnLineBreak |-> FALSE]
diffAddDecoration ==
    [className |-> "inlineCompletions-char-insert", description |-> "char-insert",
     isWholeLine |-> FALSE, shouldFillLineOnLineBreak |-> TRUE]
diffAddDecorationEmpty ==
    [className |-> "inlineCompletions-char-insert diff-range-empty",
     description |-> "char-insert diff-range-empty",
     isWholeLine |-> FALSE, shouldFillLineOnLineBreak |-> FALSE]

\* m.innerChanges || []
InnerChangesOrEmpty(m) == IF IsSome(m.innerChanges) THEN Val(m.innerChanges) ELSE <<>>

\* HasOneInnerChange without the test of the diff's length
HasOneInnerChange_AnyLength(diff) ==
    /\ diff # <<>>
    /\ IsSome(diff[1].innerChanges)
    /\ Len(Val(diff[1].innerChanges)) = 1

\* hasOneInnerChange
HasOneInnerChange(diff) ==
    /\ Len(diff) = 1
    /\ IsSome(diff[1].innerChanges)
    /\ Len(Val(diff[1].innerChanges)) = 1

\* the inner loop of _decorations over m.innerChanges
RECURSIVE InnerDecorations(_, _, _)
InnerDecorations(m, inner, hasOne) ==
    IF inner = <<>> THEN <<>>
    ELSE
        LET i == Head(inner)
            here == IF LineRangeContains(m.modified, i.modifiedRange.startLineNumber)
                    THEN <<[range |-> i.modifiedRange,
                            options |-> IF RangeIsEmpty(i.modifiedRange) /\ hasOne
                                        THEN diffAddDecorationEmpty
                                        ELSE diffAddDecoration]>>
                    ELSE <<>>
        IN here \o InnerDecorations(m, Tail(inner), hasOne)

\* the body of the loop of _decorations for one mapping
MappingDecorations(m, hasOne) ==
    IF LineRangeIsEmpty(m.modified) \/ LineRangeIsEmpty(m.original)
    THEN IF ~LineRangeIsEmpty(m.modified)
         THEN <<[range |-> Val(ToInclusiveRange(m.modified)),
                 options |-> diffWholeLineAddDecoration]>>
         ELSE <<>>
    ELSE InnerDecorations(m, InnerChangesOrEmpty(m), hasOne)

\* the loop of _decorations over viewState.diff
RECURSIVE DiffDecorations(_, _)
DiffDecorations(diff, hasOne) ==
    IF diff = <<>> THEN <<>>
    ELSE MappingDecorations(Head(diff), hasOne) \o DiffDecorations(Tail(diff), hasOne)

\* _decorations
Decorations(vs) ==
    IF ~IsSome(vs) THEN <<>>
    ELSE DiffDecorations(Val(vs).diff, HasOneInnerChange(Val(vs).diff))

\* the line range handed to InlineEditsGutterIndicator: reading diff[0] of an
\* absent view state, or .modified of an absent diff[0], throws a TypeError
GutterIndicatorLineRange(vs) ==
    IF ~IsSome(vs) \/ Val(vs).diff = <<>>
    THEN [threw |-> TRUE, value |-> Undefined]
    ELSE [threw |-> FALSE,
          value |-> Some(LineRangeOfLength(Val(vs).diff[1].modified.startLineNumber, 1))]

\* getContentRenderWidth (utils): tabs are tabSize characters wide
RECURSIVE GetContentRenderWidth(_, _, _)
GetContentRenderWidth(line, charWidth, tabSize) ==
    IF line = <<>> THEN 0
    ELSE (IF Head(line) = "TAB" THEN tabSize * charWidth ELSE charWidth)
         + GetContentRenderWidth(Tail(line), charWidth, tabSize)

\* newLines.reduce((max, line) => Math.max(max, getContentRenderWidth(line)), 0)
RECURSIVE MaxModifiedContent(_, _, _, _)
MaxModifiedContent(newLines, acc, charWidth, tabSize) ==
    IF newLines = <<>> THEN acc
    ELSE MaxModifiedContent(Tail(newLines),
                            Max(acc, GetContentRenderWidth(Head(newLines), charWidth, tabSize)),
                            charWidth, tabSize)

\* FitsInsideViewport with <= for <
FitsInsideViewport_NonStrict(in) ==
    LET minimapWidth == IF in.minimapLeft # 0 THEN in.minimapWidth ELSE 0
        maxModifiedContent == MaxModifiedContent(in.newLines, 0, in.charWidth, in.tabSize)
    IN in.maxOriginalContent + maxModifiedContent + ORIGINAL_END_PADDING
         + MODIFIED_END_PADDING + 2 * BORDER_WIDTH
         <= in.editorWidth - in.contentLeft - in.verticalScrollbarWidth - minimapWidth

\* InlineEditsLongDistanceHint.fitsInsideViewport
FitsInsideViewport(in) ==
    LET editorWidth == in.editorWidth
        editorContentLeft == in.contentLeft
        editorVerticalScrollbar == in.verticalScrollbarWidth
        minimapWidth == IF in.minimapLeft # 0 THEN in.minimapWidth ELSE 0
        maxOriginalContent == in.maxOriginalContent
        maxModifiedContent == MaxModifiedContent(in.newLines, 0, in.charWidth, in.tabSize)
        originalPadding == ORIGINAL_END_PADDING
        modifiedPadding == MODIFIED_END_PADDING + 2 * BORDER_WIDTH
    IN maxOriginalContent + maxModifiedContent + originalPadding + modifiedPadding
         < editorWidth - editorContentLeft - editorVerticalScrollbar - minimapWidth

\* new StandardMouseEvent(getWindow(e), e) (base/browser/mouseEvent)
StandardMouseEvent(e) ==
    [browserEvent |-> e,
     leftButton |-> e.button = 0,
     middleButton |-> e.button = 1,
     rightButton |-> e.button = 2,
     posx |-> e.pageX,
     posy |-> e.pageY]

(***************************************************************************)
(* The values the inputs are drawn from.                                   *)
(***************************************************************************)
InnerChange(r) == [modifiedRange |-> r]
Mapping(orig, mod, inner) == [original |-> orig, modified |-> mod, innerChanges |-> inner]
ViewStateOf(h, s, n, diff) ==
    [hint |-> [lineNumber |-> h],
     newTextLineCount |-> n,
     edit |-> [originalLineRange |-> LineRange(s, s + 1),
               modifiedLineRange |-> LineRange(s, s + n)],
     diff |-> diff]

\* (line count, first line of the edit, number of new lines): the new lines lie
\* inside the preview text model
EditShapes ==
    {t \in (1..MaxLineCount) \X (1..(MaxLineCount + 1)) \X (0..MaxNewLines) :
        t[2] + t[3] <= t[1] + 1}

HintLines == {2}
DiffKinds == {"none", "narrow", "wide"}
SampleDiff(kind, s) ==
    CASE kind = "none" -> <<>>
      [] kind = "narrow" ->
            <<Mapping(LineRange(s, s + 1), LineRange(s, s + 1),
                      Some(<<InnerChange(Range(s, 1, s, 3))>>))>>
      [] kind = "wide" ->
            <<Mapping(LineRange(s, s + 1), LineRange(s, s + 1),
                      Some(<<InnerChange(Range(s, 40, s, 90))>>))>>

\* the largest column a diff touches
RECURSIVE HorizontalExtent(_)
HorizontalExtent(diff) ==
    IF diff = <<>> THEN 0
    ELSE LET inner == InnerChangesOrEmpty(Head(diff))
             cols == {inner[i].modifiedRange.endColumn : i \in 1..Len(inner)}
             here == IF cols = {} THEN 0 ELSE CHOOSE c \in cols : \A d \in cols : d <= c
         IN Max(here, HorizontalExtent(Tail(diff)))

\* a view state (or none) together with the preview text model it comes with
LayoutInputs ==
    {[vs |-> Some(ViewStateOf(h, t[2], t[3], SampleDiff(k, t[2]))), lc |-> t[1]] :
        t \in EditShapes, h \in HintLines, k \in DiffKinds}
    \cup {[vs |-> Undefined, lc |-> lc] : lc \in 1..MaxLineCount}

HintPoints == {[x |-> 0, y |-> 0], [x |-> 120, y |-> 36]}
ContentLefts == {0, 64}
ScrollLefts == {0, 15}
LineHeights == {18, 27}
ContentWidths == {400, 640}

\* a few of them: one new line on line 1 or 2 of a model of two lines
FewInputs ==
    {[vs |-> Some(ViewStateOf(2, s, 1, SampleDiff(k, s))), lc |-> 2] :
        s \in 1..2, k \in DiffKinds}
    \cup {[vs |-> Undefined, lc |-> 2]}

\* Diffs for the decorations: a mapping on line p replaces or inserts at most one
\* line and carries no list of inner changes, an empty one, or one or two of:
\* an empty range on p, a non-empty range on p, an empty range on p + 1.
InnerRangesAt(p) == {Range(p, 1, p, 1), Range(p, 1, p, 4), Range(p + 1, 1, p + 1, 1)}
InnerListsAt(p) ==
    {Undefined, Some(<<>>)}
    \cup {Some(<<InnerChange(a)>>) : a \in InnerRangesAt(p)}
    \cup {Some(<<InnerChange(a), InnerChange(b)>>) : a \in InnerRangesAt(p), b \in InnerRangesAt(p)}
MappingsAt(p) ==
    {Mapping(LineRange(p, p + l[1]), LineRange(p, p + l[2]), inner) :
        l \in {<<0, 1>>, <<1, 0>>, <<1, 1>>}, inner \in InnerListsAt(p)}
RECURSIVE DiffsFrom(_)
DiffsFrom(p) ==
    IF p > DecoMaxLine THEN {<<>>}
    ELSE LET rest == DiffsFrom(p + 1)
         IN rest \cup {<<m>> \o r : m \in MappingsAt(p), r \in rest}
DecoInputs ==
    {[vs |-> Some(ViewStateOf(1, 1, 1, d)), lc |-> DecoMaxLine + 1] : d \in DiffsFrom(1)}

\* mouse events as dispatched by the browser
MouseEvents ==
    [type : {"click", "mousedown"}, button : {0, 2}, pageX : {3, 8}, pageY : {5},
     defaultPrevented : {FALSE}]

\* lines of text: sequences of characters
FitsLines == {<<>>, <<"x", "x">>, <<"x", "TAB">>}
RECURSIVE SeqsUpTo(_, _)
SeqsUpTo(S, n) ==
    IF n = 0 THEN {<<>>}
    ELSE LET shorter == SeqsUpTo(S, n - 1)
         IN shorter \cup {Append(q, x) : q \in {r \in shorter : Len(r) = n - 1}, x \in S}
FitsInputs ==
    [editorWidth : 40..MaxEditorWidth,
     contentLeft : {0, 4},
     verticalScrollbarWidth : {0, 2},
     minimapLeft : {0, 50},
     minimapWidth : {0, 6},
     maxOriginalContent : {0, 5},
     newLines : SeqsUpTo(FitsLines, MaxFitsLines),
     charWidth : {1},
     tabSize : {4}]
DefaultFitsIn ==
    [editorWidth |-> 40, contentLeft |-> 0, verticalScrollbarWidth |-> 0,
     minimapLeft |-> 0, minimapWidth |-> 0, maxOriginalContent |-> 0,
     newLines |-> <<>>, charWidth |-> 1, tabSize |-> 4]

(***************************************************************************)
(* The objects the constructor creates.  All but the gutter indicator are  *)
(* registered on the view's store (this._register, keepUpdated(_store),    *)
(* observePosition(.., _store), recomputeInitiallyAndOnChange(_store)).    *)
(***************************************************************************)
Registered ==
    {"onDidClick", "widgetContent", "previewEditor", "decorations",
     "hintPositionWidget", "view", "overlayWidget", "layoutAutorun",
     "scrollAutorun", "updatePreviewEditor"}
Created == Registered \cup {"gutterIndicator"}

(***************************************************************************)
(* Propagation: the deriveds and autoruns that rerun when the inputs take  *)
(* the given values, each only while it is alive.                          *)
(***************************************************************************)
Propagate(vs, lc, htl, cl, sl, lh, cw) ==
    LET li == PreviewEditorLayoutInfo(vs, sl, cl, lh, cw, htl)
        la == LayoutAutorun(li, [layout |-> previewLayout, style |-> widgetStyle])
    IN  /\ display' = IF "view" \in live \/ "updatePreviewEditor" \in live
                      THEN Display(vs) ELSE display
        /\ hiddenAreas' = IF "updatePreviewEditor" \in live
                          THEN UpdatePreviewEditor(vs, lc, hiddenAreas) ELSE hiddenAreas
        /\ previewLayout' = IF "layoutAutorun" \in live THEN la.layout ELSE previewLayout
        /\ widgetStyle' = IF "layoutAutorun" \in live THEN la.style ELSE widgetStyle
        /\ previewScrollLeft' = IF "scrollAutorun" \in live
                                THEN ScrollAutorun(li, previewScrollLeft)
                                ELSE previewScrollLeft
        /\ previewDecorations' = IF "decorations" \in live
                                 THEN Decorations(vs) ELSE previewDecorations
        /\ gutterLineRange' = IF "gutterIndicator" \in live
                              THEN GutterIndicatorLineRange(vs) ELSE gutterLineRange

\* the constructor
ViewInit(Inputs, CLs, SLs, LHs, CWs) ==
    \E in \in Inputs, cl \in CLs, sl \in SLs, lh \in LHs, cw \in CWs :
        LET htl == Some([x |-> 0, y |-> 0])
            li == PreviewEditorLayoutInfo(in.vs, sl, cl, lh, cw, htl)
            la == LayoutAutorun(li, [layout |-> Undefined, style |-> Undefined])
        IN  /\ viewState = in.vs
            /\ lineCount = in.lc
            /\ hintTopLeft = htl
            /\ contentLeft = cl
            /\ scrollLeft = sl
            /\ lineHeight = lh
            /\ previewContentWidth = cw
            /\ display = Display(in.vs)
            /\ hiddenAreas = UpdatePreviewEditor(in.vs, in.lc, <<>>)
            /\ previewLayout = la.layout
            /\ widgetStyle = la.style
            /\ previewScrollLeft = ScrollAutorun(li, Undefined)
            /\ previewDecorations = Decorations(in.vs)
            /\ gutterLineRange = GutterIndicatorLineRange(in.vs)
            /\ live = Created
            /\ fired = <<>>
            /\ domEvents = <<>>

FitsInit(Inputs) ==
    /\ fitsIn \in Inputs
    /\ fitsOut = Undefined

inputVars == <<viewState, lineCount, hintTopLeft, contentLeft, scrollLeft, lineHeight,
               previewContentWidth>>
mouseVars == <<fired, domEvents>>
fitsVars == <<fitsIn, fitsOut>>
appliedVars == <<display, hiddenAreas, widgetStyle, previewLayout, previewScrollLeft,
                 previewDecorations, gutterLineRange>>

(***************************************************************************)
(* Actions.                                                                *)
(***************************************************************************)

\* the host sets a new view state (the preview text model holds its text)
SetViewState(in) ==
    /\ viewState' = in.vs
    /\ lineCount' = in.lc
    /\ Propagate(in.vs, in.lc, hintTopLeft, contentLeft, scrollLeft, lineHeight,
                 previewContentWidth)
    /\ UNCHANGED <<hintTopLeft, contentLeft, scrollLeft, lineHeight, previewContentWidth,
                   live, mouseVars, fitsVars>>

\* the host editor rendered the hint's content widget: its pixel position, or
\* null when the position is not rendered
HintPositionRendered(p) ==
    /\ "hintPositionWidget" \in live
    /\ hintTopLeft' = p
    /\ Propagate(viewState, lineCount, p, contentLeft, scrollLeft, lineHeight,
                 previewContentWidth)
    /\ UNCHANGED <<viewState, lineCount, contentLeft, scrollLeft, lineHeight,
                   previewContentWidth, live, mouseVars, fitsVars>>

HostLayoutChanged(cl) ==
    /\ contentLeft' = cl
    /\ Propagate(viewState, lineCount, hintTopLeft, cl, scrollLeft, lineHeight,
                 previewContentWidth)
    /\ UNCHANGED <<viewState, lineCount, hintTopLeft, scrollLeft, lineHeight,
                   previewContentWidth, live, mouseVars, fitsVars>>

HostScrolled(sl) ==
    /\ scrollLeft' = sl
    /\ Propagate(viewState, lineCount, hintTopLeft, contentLeft, sl, lineHeight,
                 previewContentWidth)
    /\ UNCHANGED <<viewState, lineCount, hintTopLeft, contentLeft, lineHeight,
                   previewContentWidth, live, mouseVars, fitsVars>>

PreviewLineHeightChanged(lh) ==
    /\ lineHeight' = lh
    /\ Propagate(viewState, lineCount, hintTopLeft, contentLeft, scrollLeft, lh,
                 previewContentWidth)
    /\ UNCHANGED <<viewState, lineCount, hintTopLeft, contentLeft, scrollLeft,
                   previewContentWidth, live, mouseVars, fitsVars>>

\* getContentWidth() is read without a reader: nothing reruns
PreviewContentWidthChanged(cw) ==
    /\ previewContentWidth' = cw
    /\ UNCHANGED <<viewState, lineCount, hintTopLeft, contentLeft, scrollLeft, lineHeight,
                   appliedVars, live, mouseVars, fitsVars>>

\* Disposable.dispose: everything registered on the store is disposed
Dispose ==
    /\ live \cap Registered # {}
    /\ live' = live \ Registered
    /\ UNCHANGED <<inputVars, appliedVars, mouseVars, fitsVars>>

\* onclick
OnClick(e, delivered) == Append(delivered, StandardMouseEvent(e))

\* OnMouseDown firing the click event as well
OnMouseDown_Fires(e, delivered) == Append(delivered, StandardMouseEvent(e))

\* onmousedown
OnMouseDown(e, delivered) == delivered

\* what onmousedown does to its event
OnMouseDownEvent(e) == [e EXCEPT !.defaultPrevented = TRUE]

\* the user can reach the widget while it is in the editor and displayed
Reachable == "overlayWidget" \in live /\ display = "block"

Click(e) ==
    /\ Reachable
    /\ Len(domEvents) < MaxEvents
    /\ e.type = "click"
    /\ fired' = OnClick(e, fired)
    /\ domEvents' = Append(domEvents, e)
    /\ UNCHANGED <<inputVars, appliedVars, live, fitsVars>>

MouseDown(e) ==
    /\ Reachable
    /\ Len(domEvents) < MaxEvents
    /\ e.type = "mousedown"
    /\ fired' = OnMouseDown(e, fired)
    /\ domEvents' = Append(domEvents, OnMouseDownEvent(e))
    /\ UNCHANGED <<inputVars, appliedVars, live, fitsVars>>

\* a caller evaluates fitsInsideViewport
FitsEvaluate ==
    /\ fitsOut = Undefined
    /\ fitsOut' = Some(FitsInsideViewport(fitsIn))
    /\ UNCHANGED <<fitsIn, inputVars, appliedVars, live, mouseVars>>

\* the host editor is resized: layoutInfoWidth is read with the caller's reader,
\* so the caller evaluates again
FitsEditorResized(w) ==
    /\ fitsOut # Undefined
    /\ w # fitsIn.editorWidth
    /\ fitsIn' = [fitsIn EXCEPT !.editorWidth = w]
    /\ fitsOut' = Some(FitsInsideViewport(fitsIn'))
    /\ UNCHANGED <<inputVars, appliedVars, live, mouseVars>>

(***************************************************************************)
(* Specifications.                                                         *)
(***************************************************************************)

\* the reactive layout of a live view
Init ==
    /\ ViewInit(FewInputs, ContentLefts, ScrollLefts, LineHeights, ContentWidths)
    /\ FitsInit({DefaultFitsIn})
Next ==
    \/ \E in \in FewInputs : SetViewState(in)
    \/ \E p \in {Null} \cup {Some(q) : q \in HintPoints} : HintPositionRendered(p)
    \/ \E cl \in ContentLefts : HostLayoutChanged(cl)
    \/ \E sl \in ScrollLefts : HostScrolled(sl)
    \/ \E lh \in LineHeights : PreviewLineHeightChanged(lh)
    \/ \E cw \in ContentWidths : PreviewContentWidthChanged(cw)
Spec == Init /\ [][Next]_vars

\* the preview editor's hidden areas over every shape of edit: the view is
\* constructed before the host has an edit to show
InitPreview ==
    /\ ViewInit({[vs |-> Undefined, lc |-> lc] : lc \in 1..MaxLineCount}, {0}, {0}, {18}, {400})
    /\ FitsInit({DefaultFitsIn})
NextPreview ==
    \/ \E in \in LayoutInputs : SetViewState(in)
    \/ \E p \in {Null} \cup {Some(q) : q \in HintPoints} : HintPositionRendered(p)
SpecPreview == InitPreview /\ [][NextPreview]_vars

\* construction, input changes and teardown
InitLifecycle ==
    /\ ViewInit(FewInputs, ContentLefts, {0}, {18}, {400})
    /\ FitsInit({DefaultFitsIn})
NextLifecycle ==
    \/ \E in \in FewInputs : SetViewState(in)
    \/ \E p \in {Null} \cup {Some(q) : q \in HintPoints} : HintPositionRendered(p)
    \/ \E cl \in ContentLefts : HostLayoutChanged(cl)
    \/ \E sl \in ScrollLefts : HostScrolled(sl)
    \/ \E lh \in LineHeights : PreviewLineHeightChanged(lh)
    \/ Dispose
SpecLifecycle == InitLifecycle /\ [][NextLifecycle]_vars

\* the user's mouse on the widget
InitMouse ==
    /\ ViewInit(FewInputs, {0}, {0}, {18}, {400})
    /\ FitsInit({DefaultFitsIn})
NextMouse ==
    \/ \E in \in FewInputs : SetViewState(in)
    \/ \E e \in MouseEvents : Click(e)
    \/ \E e \in MouseEvents : MouseDown(e)
    \/ Dispose
SpecMouse == InitMouse /\ [][NextMouse]_vars

\* the decorations of every diff: the host shows a view state and withdraws it
InitDeco ==
    /\ ViewInit({[vs |-> Undefined, lc |-> DecoMaxLine + 1]}, {0}, {0}, {18}, {400})
    /\ FitsInit({DefaultFitsIn})
NextDeco ==
    \/ viewState = Undefined /\ \E in \in DecoInputs : SetViewState(in)
    \/ viewState # Undefined /\ SetViewState([vs |-> Undefined, lc |-> DecoMaxLine + 1])
SpecDeco == InitDeco /\ [][NextDeco]_vars

\* fitsInsideViewport over its arguments
InitFits ==
    /\ ViewInit({[vs |-> Undefined, lc |-> 1]}, {0}, {0}, {18}, {400})
    /\ FitsInit(FitsInputs)
NextFits ==
    \/ FitsEvaluate
    \/ \E w \in 40..MaxEditorWidth : FitsEditorResized(w)
SpecFits == InitFits /\ [][NextFits]_vars

(***************************************************************************)
(* Properties.                                                             *)
(***************************************************************************)

\* C1: the view's display is 'none' exactly when the view state is absent and
\* 'block' exactly when it is present, and a recomputation with an absent view
\* state sets the display and leaves the preview editor's hidden areas alone.
C1_DisplayFollowsViewState ==
    /\ [](/\ (display = "none") <=> (viewState = Undefined)
          /\ (display = "block") <=> (viewState # Undefined))
    /\ [][viewState' = Undefined => (display' = "none" /\ hiddenAreas' = hiddenAreas)]_vars

\* a view state was shown and then withdrawn: its hidden areas are still set
C1_Witness ==
    /\ viewState = Undefined
    /\ display = "none"
    /\ hiddenAreas # <<>>

\* the geometry of the widget for a hint position, a content left and a line
\* height, written out: the preview is 345 wide and starts at offset 55
ExpectedStyle(p, cl) == [top |-> p.y - 10, left |-> p.x + cl + 10, width |-> 365]
ExpectedLayout(lh) == [height |-> lh + 10, width |-> 355]

\* C2: whenever the layout info is non-null (a present view state and a resolved
\* hint position), the widget's top, left and width, the size given to
\* previewEditor.layout and the offset given to setScrollLeft are all those of
\* the current inputs.
C2_AppliedGeometryIsCurrent ==
    (IsSome(viewState) /\ IsSome(hintTopLeft)) =>
        /\ widgetStyle = Some(ExpectedStyle(Val(hintTopLeft), contentLeft))
        /\ previewLayout = Some(ExpectedLayout(lineHeight))
        /\ previewScrollLeft = Some(55)

\* every input has moved away from its first value and the widget followed
C2_Witness ==
    /\ IsSome(viewState)
    /\ hintTopLeft = Some([x |-> 120, y |-> 36])
    /\ contentLeft = 64
    /\ lineHeight = 27
    /\ scrollLeft = 15
    /\ widgetStyle = Some([top |-> 26, left |-> 194, width |-> 365])
    /\ previewLayout = Some([height |-> 37, width |-> 355])

\* C3: the events delivered through onDidClick are, in order, one
\* StandardMouseEvent per click on the widget, built from that click; a
\* mouse-down delivers nothing and has its default action prevented.
C3_ClickFiresOnce ==
    LET IsClick(e) == e.type = "click"
        clicks == SelectSeq(domEvents, IsClick)
    IN  /\ Len(fired) = Len(clicks)
        /\ \A i \in 1..Len(clicks) :
              /\ fired[i].browserEvent = clicks[i]
              /\ fired[i].posx = clicks[i].pageX
              /\ fired[i].posy = clicks[i].pageY
              /\ fired[i].leftButton = (clicks[i].button = 0)
              /\ fired[i].rightButton = (clicks[i].button = 2)
        /\ \A i \in 1..Len(domEvents) :
              domEvents[i].type = "mousedown" => domEvents[i].defaultPrevented

\* a mouse-down, then a click, then another mouse-down
C3_Witness ==
    /\ Len(domEvents) = 3
    /\ domEvents[1].type = "mousedown"
    /\ domEvents[2].type = "click"
    /\ domEvents[3].type = "mousedown"
    /\ Len(fired) = 1

\* C4: once the view is disposed, everything its constructor created is
\* released.
C4_EverythingCreatedIsDisposed ==
    ("view" \notin live) => (live = {})

\* C5: when the view state changes to one whose diff has another horizontal
\* extent, the preview's width or its desired scroll offset changes with it.
C5_GeometryFollowsDiff ==
    [][(/\ IsSome(viewState) /\ IsSome(viewState')
        /\ IsSome(previewLayout) /\ IsSome(previewLayout')
        /\ IsSome(hintTopLeft')
        /\ HorizontalExtent(Val(viewState).diff) # HorizontalExtent(Val(viewState').diff))
       => <<Val(previewLayout').width, previewScrollLeft'>>
            # <<Val(previewLayout).width, previewScrollLeft>>]_vars

\* the decorations the claim C6 describes, mapping by mapping
C6_Flatten(ss) ==
    LET F[k \in 0..Len(ss)] == IF k = 0 THEN <<>> ELSE F[k - 1] \o ss[k]
    IN F[Len(ss)]
C6_RangesOf(m) ==
    IF m.modified.startLineNumber = m.modified.endLineNumberExclusive THEN <<>>
    ELSE IF m.original.startLineNumber = m.original.endLineNumberExclusive
    THEN <<[range |-> Range(m.modified.startLineNumber, 1,
                            m.modified.endLineNumberExclusive - 1, MAX_SAFE_INTEGER),
            whole |-> TRUE]>>
    ELSE LET inner == IF m.innerChanges = Undefined THEN <<>> ELSE m.innerChanges[1]
             Inside(i) == i.modifiedRange.startLineNumber \in
                            m.modified.startLineNumber..(m.modified.endLineNumberExclusive - 1)
             kept == SelectSeq(inner, Inside)
         IN [k \in 1..Len(kept) |-> [range |-> kept[k].modifiedRange, whole |-> FALSE]]
C6_Expected(diff) == C6_Flatten([k \in 1..Len(diff) |-> C6_RangesOf(diff[k])])

\* C6: the preview decorations are, in diff order: nothing for a mapping with an
\* empty modified range, one whole-line insert over the modified range for a
\* mapping with an empty original range, and one decoration per inner change
\* starting inside the modified range otherwise; the 'diff-range-empty' style
\* appears only on an empty range of a diff of one mapping with one inner change;
\* no view state, no decorations.
C6_DecorationsMatchDiff ==
    /\ viewState = Undefined => previewDecorations = <<>>
    /\ IsSome(viewState) =>
         LET diff == Val(viewState).diff
             want == C6_Expected(diff)
         IN  /\ Len(previewDecorations) = Len(want)
             /\ \A k \in 1..Len(want) :
                   /\ previewDecorations[k].range = want[k].range
                   /\ previewDecorations[k].options.isWholeLine = want[k].whole
                   /\ previewDecorations[k].options.className
                        = "inlineCompletions-char-insert diff-range-empty"
                      => /\ Len(diff) = 1
                         /\ diff[1].innerChanges # Undefined
                         /\ Len(diff[1].innerChanges[1]) = 1
                         /\ RangeIsEmpty(diff[1].innerChanges[1][1].modifiedRange)

\* two mappings: an insertion that carries an inner change, and a replacement
\* with one inner change inside its lines and one outside
C6_Witness ==
    /\ IsSome(viewState)
    /\ Len(Val(viewState).diff) = 2
    /\ LineRangeIsEmpty(Val(viewState).diff[1].original)
    /\ Val(viewState).diff[1].innerChanges = Some(<<InnerChange(Range(1, 1, 1, 1))>>)
    /\ Val(viewState).diff[2].innerChanges
         = Some(<<InnerChange(Range(2, 1, 2, 1)), InnerChange(Range(3, 1, 3, 1))>>)
    /\ ~LineRangeIsEmpty(Val(viewState).diff[2].original)
    /\ ~LineRangeIsEmpty(Val(viewState).diff[2].modified)
    /\ Len(previewDecorations) = 2
    /\ previewDecorations[1].options = diffWholeLineAddDecoration
    /\ previewDecorations[2].options = diffAddDecoration

\* the two sides of the comparison of fitsInsideViewport, written out
C7_Width(line, in) ==
    LET tabs == Cardinality({k \in 1..Len(line) : line[k] = "TAB"})
    IN (Len(line) - tabs) * in.charWidth + tabs * in.tabSize * in.charWidth
C7_Needed(in) ==
    LET widths == {C7_Width(in.newLines[k], in) : k \in 1..Len(in.newLines)} \cup {0}
    IN in.maxOriginalContent + (CHOOSE w \in widths : \A v \in widths : v <= w) + 20 + (12 + 2 * 1)
C7_Available(in) ==
    in.editorWidth - in.contentLeft - in.verticalScrollbarWidth
        - (IF in.minimapLeft = 0 THEN 0 ELSE in.minimapWidth)

\* C7: fitsInsideViewport is true exactly when the needed width is strictly
\* less than the available one (equal widths do not fit), and an edit that fits
\* still fits after the editor is made wider.
C7_FitsIsStrictComparison ==
    /\ [](IsSome(fitsOut) =>
            /\ Val(fitsOut) <=> (C7_Needed(fitsIn) < C7_Available(fitsIn))
            /\ C7_Needed(fitsIn) = C7_Available(fitsIn) => ~Val(fitsOut))
    /\ [][(/\ IsSome(fitsOut) /\ Val(fitsOut)
            /\ fitsIn'.editorWidth > fitsIn.editorWidth
            /\ fitsIn' = [fitsIn EXCEPT !.editorWidth = fitsIn'.editorWidth])
           => (IsSome(fitsOut') /\ Val(fitsOut'))]_vars

\* needed and available widths are equal, with a minimap that counts and a tab
C7_Witness ==
    /\ fitsOut = Some(FALSE)
    /\ C7_Needed(fitsIn) = C7_Available(fitsIn)
    /\ fitsIn.minimapLeft # 0 /\ fitsIn.minimapWidth # 0
    /\ fitsIn.newLines # <<>>
    /\ C7_Needed(fitsIn) > 34 + fitsIn.maxOriginalContent

\* the lines a list of hidden ranges covers
CoveredLines(areas) ==
    UNION {areas[k].startLineNumber..areas[k].endLineNumber : k \in 1..Len(areas)}
WindowLines ==
    LET s == Val(viewState).edit.originalLineRange.startLineNumber
    IN {l \in 1..lineCount : s <= l /\ l < s + Val(viewState).newTextLineCount}
NoRangeOnTouchedSide ==
    LET s == Val(viewState).edit.originalLineRange.startLineNumber
        n == Val(viewState).newTextLineCount
    IN  /\ s = 1 => \A k \in 1..Len(hiddenAreas) : hiddenAreas[k].startLineNumber >= s
        /\ s + n > lineCount => \A k \in 1..Len(hiddenAreas) : hiddenAreas[k].endLineNumber < s

\* C8 as claimed: with a view state, the hidden ranges cover exactly the lines
\* of the model outside the window, none on a side the window reaches, each
\* with start <= end and line numbers within 1..lineCount.
C8_HiddenAreasWithinModel ==
    IsSome(viewState) =>
        /\ CoveredLines(hiddenAreas) = (1..lineCount) \ WindowLines
        /\ NoRangeOnTouchedSide
        /\ \A k \in 1..Len(hiddenAreas) :
              /\ hiddenAreas[k].startLineNumber <= hiddenAreas[k].endLineNumber
              /\ hiddenAreas[k].startLineNumber \in 1..lineCount
              /\ hiddenAreas[k].endLineNumber \in 1..lineCount

\* C8 as amended: the range after the window ends on line lineCount + 1, one
\* past the last line; the lines of the model the ranges cover are exactly
\* those outside the window, none on a side the window reaches, each range
\* with start <= end and a start line within 1..lineCount.
C8_HiddenAreasComplementWindow ==
    IsSome(viewState) =>
        LET s == Val(viewState).edit.originalLineRange.startLineNumber
        IN  /\ CoveredLines(hiddenAreas) \cap (1..lineCount) = (1..lineCount) \ WindowLines
            /\ NoRangeOnTouchedSide
            /\ \A k \in 1..Len(hiddenAreas) :
                  /\ hiddenAreas[k].startLineNumber <= hiddenAreas[k].endLineNumber
                  /\ hiddenAreas[k].startLineNumber \in 1..lineCount
                  /\ hiddenAreas[k].endLineNumber
                       = (IF hiddenAreas[k].startLineNumber < s THEN s - 1 ELSE lineCount + 1)

\* a window in the middle of the model: lines hidden before and after it
C8_Witness ==
    /\ IsSome(viewState)
    /\ Len(hiddenAreas) = 2
    /\ WindowLines # {}

\* C9: whenever the widget is displayed, its position and the preview's size
\* are those of the current hint position and view state.
C9_ShownOnlyWherePlaced ==
    display = "block" =>
        /\ IsSome(hintTopLeft)
        /\ widgetStyle = Some(ExpectedStyle(Val(hintTopLeft), contentLeft))
        /\ previewLayout = Some(ExpectedLayout(lineHeight))

\* C10: evaluating the gutter indicator's line range never fails, and a
\* defined one is the single line at the first diff entry's modified start.
C10_GutterLineRangeNeverFails ==
    /\ ~gutterLineRange.threw
    /\ IsSome(gutterLineRange.value) =>
         gutterLineRange.value
           = Some(LineRange(Val(viewState).diff[1].modified.startLineNumber,
                            Val(viewState).diff[1].modified.startLineNumber + 1))

====
